---- MODULE Spec2Model ----
(***************************************************************************)
(* BIS-Scraper: the checkpointed batch runner                              *)
(* (BISScraper.process_bbls_from_csv), the rate-limited transport          *)
(* (BISScraper.fetch_page) and the files they read and write, as a state   *)
(* machine.  One run of the runner is one process; a crash loses the       *)
(* process memory and keeps the files; a restart is a new process with a   *)
(* new BISScraper over the same files.                                     *)
(***************************************************************************)
EXTENDS Naturals, Sequences, FiniteSets, TLC

(***************************************************************************)
(* Bounds of the model.                                                    *)
(***************************************************************************)
\* longest input CSV (rows of the BBL column)
MaxSrc == 2
\* runs of the runner over the same files (any of them may crash)
MaxRuns == 2
\* longest run of queue/hold pages the remote service serves without a
\* document in between
MaxQueue == 6

(***************************************************************************)
(* Program constants.                                                      *)
(***************************************************************************)
\* fetch_page(url, max_retries = 5, retry_delay = 6)
max_retries == 5
retry_delay == 6
\* BISScraper.session_rotation_interval
session_rotation_interval == 50
\* parse_bbl: a BBL is 10 characters; save_batch pads block to 5, lot to 4
BblWidth == 10
BlockWidth == 5
LotWidth == 4

\* BISScraper(batch_size): the flush thresholds the scraper is built with
BatchSizes == {1, 2}

\* The raw values the BBL column of the input CSV is drawn from: a value
\* that needs zero-padding, a full-width one, and one that is too long.
RawIds == {"12340001", "0012340002", "12345678901"}

\* Optional[str] of fetch_page / get_property_profile: the None sentinel.
NoneVal == "<None>"
\* The queue/hold page (both marker texts present).
QueuePage == "Just a moment ... Your request is being processed"
\* Documents the remote service can answer with: all five extracted output
\* columns present; no secondary address on the page; no extractable row
\* at all; an empty body.
Docs == {"doc:full", "doc:nosecondary", "doc:norows", ""}
\* A network-level error: requests.RequestException out of session.get or
\* out of raise_for_status.
NetErr == "RequestException"
Responses == Docs \cup {QueuePage, NetErr}

columns_to_keep ==
  {"BBL", "Primary Address", "Secondary Addresses", "Borough", "ZIP Code", "BIN"}
HeaderLine == "BBL,Primary Address,Secondary Addresses,Borough,ZIP Code,BIN"

(***************************************************************************)
(* Pure functions of the code.                                             *)
(***************************************************************************)
\* str.zfill(width) on a digit string
RECURSIVE zfill(_, _)
zfill(s, width) == IF Len(s) >= width THEN s ELSE zfill("0" \o s, width)

parse_bbl_raises_Never(bbl) == FALSE

\* parse_bbl raises ValueError unless len(bbl) = 10
parse_bbl_raises(bbl) == Len(bbl) # BblWidth

\* the slices with the block taken one character too far to the left
parse_bbl_ShiftedBlock(bbl) ==
  [borough |-> SubSeq(bbl, 1, 1),
   block   |-> SubSeq(bbl, 1, 5),
   lot     |-> SubSeq(bbl, 7, 10)]

\* parse_bbl: bbl[0], bbl[1:6], bbl[6:10]
parse_bbl(bbl) ==
  [borough |-> SubSeq(bbl, 1, 1),
   block   |-> SubSeq(bbl, 2, 6),
   lot     |-> SubSeq(bbl, 7, 10)]

is_queue_page(html) == html = QueuePage

\* The keys parse_property_profile extracts from a document.
parse_property_profile(html) ==
  CASE html = "doc:full" ->
         [k \in {"Primary Address", "Secondary Addresses", "Borough",
                 "ZIP Code", "BIN"} |-> "x"]
    [] html = "doc:nosecondary" ->
         [k \in {"Primary Address", "Borough", "ZIP Code", "BIN"} |-> "x"]
    [] OTHER -> [k \in {} |-> "x"]

\* Python truthiness of an Optional[str] and of a dict
StrTruthy(s) == s # NoneVal /\ s # ""
DictTruthy(d) == DOMAIN d # {}

\* get_property_profile after fetch_page returned detail_html: the record
\* with the three decoded segments attached, or None.  An Optional[Dict]
\* is a sequence of at most one dict, None the empty one.
get_property_profile(detail_html, c) ==
  IF StrTruthy(detail_html)
  THEN << ("Borough Code" :> c.borough) @@ ("Block" :> c.block) @@
          ("Lot" :> c.lot) @@ parse_property_profile(detail_html) >>
  ELSE <<>>

\* `if property_data:` of the runner
PropertyTruthy(p) == p # <<>> /\ DictTruthy(p[1])

\* actual_delay = retry_delay * (1 + consecutive_queues * 0.5), in seconds
\* (retry_delay is even, so the product is a whole number)
actual_delay(cq) == (retry_delay * (2 + cq)) \div 2

counter_after_ResetOnError(resp, cq) ==
  IF resp # NetErr /\ is_queue_page(resp) THEN cq + 1 ELSE 0

\* fetch_page, one iteration of its retry loop, on the response resp:
\* the consecutive-queue counter after it
counter_after(resp, cq) ==
  IF resp = NetErr THEN cq
  ELSE IF is_queue_page(resp) THEN cq + 1 ELSE 0

\* the time.sleep(actual_delay) of the iteration (0: no sleep); cq is the
\* counter after the increment
wait_after(resp, cq) ==
  IF resp # NetErr /\ is_queue_page(resp) THEN actual_delay(cq) ELSE 0

loop_continues_OneMore(resp, att) ==
  resp # NetErr /\ is_queue_page(resp) /\ att + 1 <= max_retries

loop_continues_RetryError(resp, att) ==
  (resp = NetErr \/ is_queue_page(resp)) /\ att + 1 < max_retries

\* whether the iteration replaces the session before its request
rotates_session(processed) == processed % session_rotation_interval = 0

\* whether the loop goes on to another request (attempt: iterations done
\* before this one)
loop_continues(resp, att) ==
  resp # NetErr /\ is_queue_page(resp) /\ att + 1 < max_retries

\* what fetch_page returns when the iteration ends the call
fetch_returns(resp) ==
  IF resp # NetErr /\ ~is_queue_page(resp) THEN resp ELSE NoneVal

IsSkipped_Never(bbl_str, processed) == FALSE

\* the load_progress skip test of the loop: bbl_str in processed_bbls
IsSkipped(bbl_str, processed) == bbl_str \in processed

\* load_progress: the set of the (stripped) lines of the progress file
load_progress(file) == {file[i] : i \in 1..Len(file)}

\* save_batch: the BBL column of a record
RowBBL(r) ==
  r["Borough Code"] \o zfill(r["Block"], BlockWidth) \o zfill(r["Lot"], LotWidth)

\* save_batch: batch_df[columns_to_keep] raises KeyError when a column is
\* in no record of the batch
BatchColumns(batch) ==
  {"BBL"} \cup UNION {DOMAIN batch[i] : i \in 1..Len(batch)}
save_batch_raises(batch) == ~(columns_to_keep \subseteq BatchColumns(batch))

\* the lines save_batch adds to the output file
save_batch_lines(batch, exists) ==
  IF save_batch_raises(batch) THEN <<>>
  ELSE (IF exists THEN <<>> ELSE <<HeaderLine>>) \o
       [i \in 1..Len(batch) |-> RowBBL(batch[i])]

\* the success rate of the final statistics raises ZeroDivisionError when
\* processed_count + error_count = 0
success_rate_raises(p, e) == p + e = 0

(***************************************************************************)
(* State.                                                                  *)
(***************************************************************************)
VARIABLES
  input_csv,          \* the BBL column of the input CSV (raw strings)
  progress_file,      \* the lines of the progress file
  output_exists,      \* os.path.exists(output_csv)
  output_csv,         \* the lines of the output CSV
  batch_size,         \* BISScraper.batch_size
  processed_count,    \* BISScraper.processed_count
  error_count,        \* BISScraper.error_count
  consecutive_queues, \* BISScraper.consecutive_queues
  pc,                 \* the runner's position
  processed_bbls,     \* the skip-set loaded at startup
  index,              \* rows of the input consumed by the loop
  bbl_str,            \* the identifier in hand (zero-padded)
  current_batch,      \* the in-memory buffer
  attempt,            \* fetch_page: iterations of the retry loop done
  fetch_result,       \* fetch_page's return value
  outcome,            \* how the run ended
  run,                \* number of the current run (history)
  progress_at_start,  \* the progress file when the run started (history)
  requests,           \* HTTP requests of this process since its last
                      \* document response, that response included (history)
  fetched,            \* rows of the input a request was issued for (history)
  response,           \* the last response received (history)
  flushes,            \* save_batch calls of this run (history)
  yielded             \* identifiers whose fetch yielded a record (history)

\* process_batches (the orchestrator)
VARIABLES
  segments,           \* the batch files in sorted order, each with its
                      \* progress file
  o_pc,               \* the orchestrator's position
  seg,                \* index of the segment in hand
  retry_count,        \* process_batches: retry_count
  scraper_gen,        \* which BISScraper object `scraper` is bound to
  o_events            \* what the orchestrator did, in order (history)

\* the identifier codec on one input
VARIABLES
  codec_in,           \* the string given to parse_bbl
  codec_out           \* the decoded segments and their re-encoding

\* extract_address_info on one document
VARIABLES
  maininfo_cells,     \* texts of the td.maininfo cells, in document order
  content_rows,       \* the tr[valign=top] rows, in document order
  x_pc,               \* the extractor's position
  x_i,                \* cells / rows consumed by the loop in hand
  data,               \* the dict under construction
  secondary_addresses \* the list of composed addresses

\* the request spacing of one BISScraper (_wait_between_requests)
VARIABLES
  t_pc,               \* position: between calls of fetch_page, before the
                      \* wait of an iteration, before its request
  stamped,            \* last_request_time is set
  elapsed,            \* time since last_request_time was set
  spacing             \* the wait made before the latest request (history)

fileVars == <<input_csv, progress_file, output_exists, output_csv>>
scraperVars == <<batch_size, processed_count, error_count, consecutive_queues>>
runnerVars == <<pc, processed_bbls, index, bbl_str, current_batch, attempt,
                fetch_result, outcome>>
histVars == <<run, progress_at_start, requests, fetched, response, flushes,
              yielded>>
orchVars == <<segments, o_pc, seg, retry_count, scraper_gen, o_events>>
codecVars == <<codec_in, codec_out>>
extractVars == <<maininfo_cells, content_rows, x_pc, x_i, data,
                 secondary_addresses>>
timingVars == <<t_pc, stamped, elapsed, spacing>>
vars == <<fileVars, scraperVars, runnerVars, histVars, orchVars, codecVars,
          extractVars, timingVars>>
\* what a run of the runner leaves alone
besideRunner == <<orchVars, codecVars, extractVars, timingVars>>

\* no request spacing under observation
TimingIdle ==
  /\ t_pc = "off"
  /\ stamped = FALSE
  /\ elapsed = 0
  /\ spacing = [first |-> TRUE, waited |-> FALSE, delay |-> 0, jitter |-> 0,
                cq |-> 0, gap |-> 0]

\* process_batches is not running
OrchIdle ==
  /\ segments = <<>>
  /\ o_pc = "idle"
  /\ seg = 0
  /\ retry_count = 0
  /\ scraper_gen = 0
  /\ o_events = <<>>

\* no codec input in hand
CodecIdle ==
  /\ codec_in = ""
  /\ codec_out = [stage |-> "idle"]

\* no document in hand
ExtractIdle ==
  /\ maininfo_cells = <<>>
  /\ content_rows = <<>>
  /\ x_pc = "idle"
  /\ x_i = 0
  /\ data = <<>>
  /\ secondary_addresses = <<>>

RECURSIVE SeqsUpTo(_, _)
SeqsUpTo(S, n) ==
  IF n = 0 THEN {<<>>}
  ELSE LET shorter == SeqsUpTo(S, n - 1)
       IN shorter \cup {Append(s, x) : s \in shorter, x \in S}

\* progress files a first run can find: none, or one left by earlier work
\* (whose record is then in the output file, under its header)
InitialProgress == {<<>>, <<"0012340001">>}

Init ==
  /\ input_csv \in SeqsUpTo(RawIds, MaxSrc)
  /\ progress_file \in InitialProgress
  /\ output_exists = (progress_file # <<>>)
  /\ output_csv = IF progress_file = <<>> THEN <<>>
                  ELSE <<HeaderLine>> \o progress_file
  /\ batch_size \in BatchSizes
  /\ processed_count = 0
  /\ error_count = 0
  /\ consecutive_queues = 0
  /\ pc = "start"
  /\ processed_bbls = {}
  /\ index = 0
  /\ bbl_str = ""
  /\ current_batch = <<>>
  /\ attempt = 0
  /\ fetch_result = NoneVal
  /\ outcome = ""
  /\ run = 1
  /\ progress_at_start = progress_file
  /\ requests = <<>>
  /\ fetched = <<>>
  /\ response = NoneVal
  /\ flushes = <<>>
  /\ yielded = {}
  /\ OrchIdle
  /\ CodecIdle
  /\ ExtractIdle
  /\ TimingIdle

\* the log of requests, cut after a document response
SinceLastDoc ==
  IF requests # <<>> /\ requests[Len(requests)].kind = "doc"
  THEN <<>> ELSE requests

ResponseKind(resp) ==
  IF resp = NetErr THEN "neterr"
  ELSE IF is_queue_page(resp) THEN "queue" ELSE "doc"

Running == pc \in {"start", "loop", "fetch", "fetched", "flushcheck", "stats"}

(***************************************************************************)
(* The runner: process_bbls_from_csv.                                      *)
(***************************************************************************)
\* lines 125-139: load the skip-set, read the input
StartRun ==
  /\ pc = "start"
  /\ UNCHANGED besideRunner
  /\ processed_bbls' = load_progress(progress_file)
  /\ pc' = "loop"
  /\ UNCHANGED <<index, bbl_str, current_batch, attempt, fetch_result, outcome>>
  /\ UNCHANGED <<fileVars, scraperVars, histVars>>

\* lines 143-165: take the next row; skip it, fail to decode it, or call
\* get_property_profile -> fetch_page
NextBbl ==
  /\ pc = "loop"
  /\ UNCHANGED besideRunner
  /\ index < Len(input_csv)
  /\ LET b == zfill(input_csv[index + 1], BblWidth)
     IN /\ index' = index + 1
        /\ bbl_str' = b
        /\ IF IsSkipped(b, processed_bbls)
           THEN /\ pc' = "loop"
                /\ UNCHANGED error_count
           ELSE IF parse_bbl_raises(b)
           THEN /\ pc' = "loop"
                /\ error_count' = error_count + 1
           ELSE /\ pc' = "fetch"
                /\ UNCHANGED error_count
  /\ attempt' = 0
  /\ fetch_result' = NoneVal
  /\ UNCHANGED <<processed_bbls, current_batch, outcome>>
  /\ UNCHANGED <<batch_size, processed_count, consecutive_queues>>
  /\ UNCHANGED <<fileVars, histVars>>

\* fetch_page lines 258-287: one iteration of the retry loop.  The sleep of
\* _wait_between_requests and the headers of the new session are not part
\* of the state; the log records whether the session was replaced.
FetchAttempt(resp) ==
  /\ pc = "fetch"
  /\ UNCHANGED besideRunner
  /\ is_queue_page(resp) => consecutive_queues < MaxQueue
  /\ LET cq == counter_after(resp, consecutive_queues)
     IN /\ consecutive_queues' = cq
        /\ requests' = Append(SinceLastDoc,
              [idx |-> index, bbl |-> bbl_str, attempt |-> attempt + 1,
               rotated |-> rotates_session(processed_count),
               kind |-> ResponseKind(resp), wait |-> wait_after(resp, cq),
               cq |-> cq])
  /\ response' = resp
  /\ fetched' = IF attempt = 0
                THEN Append(fetched, [idx |-> index, bbl |-> bbl_str])
                ELSE fetched
  /\ attempt' = attempt + 1
  /\ IF loop_continues(resp, attempt)
     THEN /\ pc' = "fetch"
          /\ UNCHANGED fetch_result
     ELSE /\ pc' = "fetched"
          /\ fetch_result' = fetch_returns(resp)
  /\ UNCHANGED <<processed_bbls, index, bbl_str, current_batch, outcome>>
  /\ UNCHANGED <<batch_size, processed_count, error_count>>
  /\ UNCHANGED <<run, progress_at_start, flushes, yielded>>
  /\ UNCHANGED fileVars

\* lines 161-182, 195-202: the record of the identifier, or an error
HandleResult ==
  /\ pc = "fetched"
  /\ UNCHANGED besideRunner
  /\ LET property_data == get_property_profile(fetch_result, parse_bbl(bbl_str))
     IN IF PropertyTruthy(property_data)
        THEN /\ current_batch' = Append(current_batch, property_data[1])
             /\ processed_count' = processed_count + 1
             /\ progress_file' = Append(progress_file, bbl_str)
             /\ yielded' = yielded \cup {bbl_str}
             /\ pc' = "flushcheck"
             /\ UNCHANGED error_count
        ELSE /\ error_count' = error_count + 1
             /\ pc' = "loop"
             /\ UNCHANGED <<current_batch, processed_count, progress_file, yielded>>
  /\ UNCHANGED <<processed_bbls, index, bbl_str, attempt, fetch_result, outcome>>
  /\ UNCHANGED <<batch_size, consecutive_queues>>
  /\ UNCHANGED <<input_csv, output_exists, output_csv>>
  /\ UNCHANGED <<run, progress_at_start, requests, fetched, response, flushes>>

\* save_batch (lines 218-239) called on the buffer, with what it did
SaveBatch(final) ==
  LET lines == save_batch_lines(current_batch, output_exists)
      ok == ~save_batch_raises(current_batch)
  IN /\ output_csv' = output_csv \o lines
     /\ output_exists' = (output_exists \/ ok)
     /\ flushes' = Append(flushes,
           [n |-> Len(current_batch), ok |-> ok,
            header |-> ok /\ ~output_exists, final |-> final])

\* lines 191-194: flush the buffer when it reached batch_size
FlushCheck ==
  /\ pc = "flushcheck"
  /\ UNCHANGED besideRunner
  /\ IF Len(current_batch) >= batch_size
     THEN /\ SaveBatch(FALSE)
          /\ current_batch' = <<>>
     ELSE UNCHANGED <<output_csv, output_exists, flushes, current_batch>>
  /\ pc' = "loop"
  /\ UNCHANGED <<processed_bbls, index, bbl_str, attempt, fetch_result, outcome>>
  /\ UNCHANGED <<input_csv, progress_file>>
  /\ UNCHANGED <<run, progress_at_start, requests, fetched, response, yielded>>
  /\ UNCHANGED scraperVars

\* lines 204-206: at end of input, flush what is left
FinalFlush ==
  /\ pc = "loop"
  /\ UNCHANGED besideRunner
  /\ index = Len(input_csv)
  /\ IF current_batch # <<>>
     THEN SaveBatch(TRUE)
     ELSE UNCHANGED <<output_csv, output_exists, flushes>>
  /\ pc' = "stats"
  /\ UNCHANGED <<processed_bbls, index, bbl_str, current_batch, attempt,
                 fetch_result, outcome>>
  /\ UNCHANGED <<input_csv, progress_file>>
  /\ UNCHANGED <<run, progress_at_start, requests, fetched, response, yielded>>
  /\ UNCHANGED scraperVars

\* lines 208-216: the final statistics; a ZeroDivisionError ends in the
\* handler of line 215
FinalStats ==
  /\ pc = "stats"
  /\ UNCHANGED besideRunner
  /\ outcome' = IF success_rate_raises(processed_count, error_count)
                THEN "error_path" ELSE "completed"
  /\ pc' = "done"
  /\ UNCHANGED <<processed_bbls, index, bbl_str, current_batch, attempt,
                 fetch_result>>
  /\ UNCHANGED <<fileVars, scraperVars, histVars>>

(***************************************************************************)
(* The environment: the process dies, and is started again.                *)
(***************************************************************************)
FreshProcess ==
  /\ processed_count' = 0
  /\ error_count' = 0
  /\ consecutive_queues' = 0
  /\ processed_bbls' = {}
  /\ index' = 0
  /\ bbl_str' = ""
  /\ current_batch' = <<>>
  /\ attempt' = 0
  /\ fetch_result' = NoneVal
  /\ requests' = <<>>
  /\ fetched' = <<>>
  /\ response' = NoneVal

\* the process is killed (or interrupted): its memory is lost, the files stay
Crash ==
  /\ Running
  /\ UNCHANGED besideRunner
  /\ pc' = "crashed"
  /\ outcome' = "crashed"
  /\ FreshProcess
  /\ UNCHANGED <<batch_size, run, progress_at_start, flushes, yielded>>
  /\ UNCHANGED fileVars

\* main(): a new BISScraper, a new run over the same files
Restart ==
  /\ pc \in {"crashed", "done"}
  /\ UNCHANGED besideRunner
  /\ run < MaxRuns
  /\ run' = run + 1
  /\ pc' = "start"
  /\ outcome' = ""
  /\ FreshProcess
  /\ progress_at_start' = progress_file
  /\ flushes' = <<>>
  /\ UNCHANGED <<batch_size, yielded>>
  /\ UNCHANGED fileVars

Next ==
  \/ StartRun
  \/ NextBbl
  \/ \E resp \in Responses : FetchAttempt(resp)
  \/ HandleResult
  \/ FlushCheck
  \/ FinalFlush
  \/ FinalStats
  \/ Crash
  \/ Restart

Spec == Init /\ [][Next]_vars

(***************************************************************************)
(* Vocabulary of the properties.                                           *)
(***************************************************************************)
\* s is a line of the file f
IsLineOf(s, f) == \E j \in 1..Len(f) : f[j] = s
\* the identifier column of the data rows of the output store
OutputRows == {output_csv[j] : j \in 1..Len(output_csv)} \ {HeaderLine}
\* the zero-padded 10-character form of row k of the source
Padded(k) == zfill(input_csv[k], BblWidth)
\* the logged requests of the call of fetch made for row k of the source
CallRequests(k) == {i \in 1..Len(requests) : requests[i].idx = k}
\* row k of the source had a request issued for it
WasFetched(k) == \E i \in 1..Len(fetched) : fetched[i].idx = k
\* queue responses up to request i of the log with no document response
\* after them (the log starts after the document response before it)
LastDoc(i) ==
  LET D == {m \in 1..i : requests[m].kind = "doc"}
  IN IF D = {} THEN 0 ELSE CHOOSE m \in D : \A x \in D : x <= m
QueuesSinceDoc(i) ==
  Cardinality({j \in (LastDoc(i) + 1)..i : requests[j].kind = "queue"})
\* the run reached the end of its loop
RunComplete == pc \in {"stats", "done"}

(***************************************************************************)
(* C1  Resume idempotence: a run issues no request for a source identifier *)
(* whose zero-padded 10-character form is a line of the progress file at   *)
(* startup, and once the run has gone through its source it has issued a   *)
(* request for every other well-formed (10 characters after padding) source*)
(* identifier: the rows fetched are exactly those.                         *)
(***************************************************************************)
C1_ResumeIdempotence ==
  /\ \A i \in 1..Len(fetched) :
       /\ ~IsLineOf(fetched[i].bbl, progress_at_start)
       /\ fetched[i].idx \in 1..Len(input_csv)
       /\ fetched[i].bbl = Padded(fetched[i].idx)
  /\ RunComplete =>
       \A k \in 1..Len(input_csv) :
         WasFetched(k) <=>
           (~IsLineOf(Padded(k), progress_at_start) /\ Len(Padded(k)) = BblWidth)

\* the resumed run of the example: one of two source identifiers is in the
\* progress file, and fetch was called exactly once, for the other one
C1_Witness ==
  /\ pc = "done"
  /\ input_csv = <<"12340001", "0012340002">>
  /\ progress_at_start = <<"0012340001">>
  /\ fetched = <<[idx |-> 2, bbl |-> "0012340002"]>>

(***************************************************************************)
(* C2  Progress-log invariant: in every reachable state each identifier    *)
(* present in the progress log has its record in the output store.         *)
(***************************************************************************)
C2_ProgressImpliesFlushed ==
  \A j \in 1..Len(progress_file) : progress_file[j] \in OutputRows

(***************************************************************************)
(* C3  Crash-restart completeness: once a run completes, every source      *)
(* identifier whose fetch yielded a record in some run (this one or an     *)
(* earlier, crashed one) has its record in the output store.               *)
(***************************************************************************)
C3_CrashRestartComplete ==
  pc = "done" => \A b \in yielded : b \in OutputRows

(***************************************************************************)
(* C4  Flush schedule: with threshold T = batch_size and n successes in a  *)
(* completed run, the output store received floor(n/T) appends of T        *)
(* records during the loop, then one final append of n mod T records if    *)
(* that is not zero and none otherwise; only the first write to a file     *)
(* that did not exist wrote a header.                                      *)
(***************************************************************************)
IsLoopAppend(f) == f.ok /\ ~f.final
IsFinalAppend(f) == f.ok /\ f.final
C4_FlushSchedule ==
  RunComplete =>
    LET T == batch_size
        n == processed_count
        inloop == SelectSeq(flushes, IsLoopAppend)
        atend == SelectSeq(flushes, IsFinalAppend)
    IN /\ Len(inloop) = n \div T
       /\ \A i \in 1..Len(inloop) : inloop[i].n = T
       /\ IF n % T # 0
          THEN Len(atend) = 1 /\ atend[1].n = n % T
          ELSE atend = <<>>
       /\ Cardinality({j \in 1..Len(output_csv) : output_csv[j] = HeaderLine}) <= 1

(***************************************************************************)
(* C5  A per-identifier failure never aborts the run: for a non-skipped    *)
(* identifier whose decode fails (length not 10 after padding) or whose    *)
(* fetch fails (fetch returned None), the error counter goes up by exactly *)
(* one, nothing is added to the buffer or the progress log, a decode       *)
(* failure issues no request, and the runner is back at the head of its    *)
(* loop with the next row of the source in turn.                           *)
(***************************************************************************)
DecodeFailureStep ==
  /\ pc = "loop"
  /\ index < Len(input_csv)
  /\ ~IsLineOf(Padded(index + 1), progress_at_start)
  /\ Len(Padded(index + 1)) # BblWidth
  /\ pc' # "crashed"
FetchFailureStep ==
  /\ pc = "fetched"
  /\ fetch_result = NoneVal
  /\ pc' # "crashed"
C5_FailureContinues ==
  [][ /\ DecodeFailureStep =>
           /\ error_count' = error_count + 1
           /\ processed_count' = processed_count
           /\ current_batch' = current_batch
           /\ progress_file' = progress_file
           /\ requests' = requests
           /\ pc' = "loop"
           /\ index' = index + 1
      /\ FetchFailureStep =>
           /\ error_count' = error_count + 1
           /\ processed_count' = processed_count
           /\ current_batch' = current_batch
           /\ progress_file' = progress_file
           /\ pc' = "loop"
           /\ index' = index
    ]_vars

\* a fetch failure on the first row, then a decode failure on the second:
\* two errors counted, nothing buffered or logged, the loop still running
C5_Witness ==
  /\ pc = "loop"
  /\ input_csv = <<"0012340002", "12345678901">>
  /\ index = 2
  /\ error_count = 2
  /\ processed_count = 0
  /\ current_batch = <<>>
  /\ progress_file = progress_at_start
  /\ WasFetched(1)
  /\ ~WasFetched(2)

(***************************************************************************)
(* C6  EmptyResult is an error: when the fetch succeeds with a document    *)
(* that holds no extractable row at all, the runner counts an error, and   *)
(* neither logs the identifier as done nor buffers a record for it.        *)
(***************************************************************************)
NoRowDocs == {"doc:norows", ""}
C6_EmptyResultIsError ==
  [][ (/\ pc = "fetched"
       /\ fetch_result \in NoRowDocs
       /\ pc' # "crashed")
      => /\ error_count' = error_count + 1
         /\ progress_file' = progress_file
         /\ current_batch' = current_batch
    ]_vars

(***************************************************************************)
(* C7  Division-by-zero guard: a run with zero successes and zero errors   *)
(* reports its final success ratio and ends normally, not in the error     *)
(* path of the run.                                                        *)
(***************************************************************************)
C7_ZeroRunCompletes ==
  (pc = "done" /\ processed_count = 0 /\ error_count = 0)
    => outcome = "completed"

(***************************************************************************)
(* C8  Bounded queue retry: one call of fetch issues at most max_retries   *)
(* requests; every response before the last of a call was a queue page (so *)
(* the first non-queue response ends the call); the call returns the       *)
(* document of that response, and returns None exactly when all            *)
(* max_retries responses were queue pages or a network error occurred.     *)
(***************************************************************************)
C8_BoundedQueueRetry ==
  /\ \A k \in 1..Len(input_csv) :
       /\ Cardinality(CallRequests(k)) <= max_retries
       /\ \A i, j \in CallRequests(k) : i < j => requests[i].kind = "queue"
  /\ pc = "fetched" =>
       LET call == CallRequests(index)
           last == requests[Len(requests)]
       IN /\ call # {}
          /\ Len(requests) \in call
          /\ last.kind = "doc" => (fetch_result = response /\ response \in Docs)
          /\ (fetch_result = NoneVal) <=>
               \/ last.kind = "neterr"
               \/ /\ Cardinality(call) = max_retries
                  /\ \A i \in call : requests[i].kind = "queue"

\* a call that gave up: max_retries queue pages, None returned
C8_Witness ==
  /\ pc = "fetched"
  /\ fetch_result = NoneVal
  /\ Cardinality(CallRequests(index)) = max_retries
  /\ \A i \in CallRequests(index) : requests[i].kind = "queue"

(***************************************************************************)
(* C9  Linear queue backoff: each queue response makes fetch wait          *)
(* retry_delay * (1 + c * 0.5), c being the number of queue responses      *)
(* since the last non-queue successful response (the current one counted,  *)
(* calls that gave up and network errors not interrupting the count); the  *)
(* counter of the transport is that c: a document response resets it to 0  *)
(* and nothing else does.                                                  *)
(***************************************************************************)
C9_LinearQueueBackoff ==
  /\ \A i \in 1..Len(requests) :
       /\ requests[i].cq = QueuesSinceDoc(i)
       /\ requests[i].kind = "queue" =>
            2 * requests[i].wait = retry_delay * (2 + QueuesSinceDoc(i))
  /\ consecutive_queues =
       IF requests = <<>> THEN 0 ELSE QueuesSinceDoc(Len(requests))

\* the count carried over a call that gave up: the first request of the
\* next call is one more queue page in a row, and waits accordingly
C9_Witness ==
  \E i \in 1..Len(requests) :
    /\ requests[i].kind = "queue"
    /\ requests[i].attempt = 1
    /\ requests[i].cq = max_retries + 1
    /\ 2 * requests[i].wait = retry_delay * (3 + max_retries)

(***************************************************************************)
(* C10  Network errors are not retried: the attempt that ends in a         *)
(* network-level error is the last request of its call, is followed by no  *)
(* backoff wait, leaves the consecutive-queue counter as it was, and makes *)
(* fetch return None; the caller then counts the identifier as one error   *)
(* and issues nothing more for that row (no row is fetched by two calls).  *)
(***************************************************************************)
NetworkErrorStep ==
  /\ Len(requests') = Len(requests) + 1
  /\ requests'[Len(requests')].kind = "neterr"
AfterNetworkErrorStep ==
  /\ pc = "fetched"
  /\ requests # <<>>
  /\ requests[Len(requests)].kind = "neterr"
  /\ pc' # "crashed"
C10_NetworkErrorNotRetried ==
  [][ /\ NetworkErrorStep =>
           /\ pc' = "fetched"
           /\ fetch_result' = NoneVal
           /\ consecutive_queues' = consecutive_queues
           /\ requests'[Len(requests')].wait = 0
      /\ AfterNetworkErrorStep =>
           /\ error_count' = error_count + 1
           /\ processed_count' = processed_count
           /\ requests' = requests
           /\ pc' = "loop"
      /\ \A i, j \in 1..Len(requests') :
           (i < j /\ requests'[i].kind = "neterr")
             => requests'[j].idx # requests'[i].idx
      /\ \A i, j \in 1..Len(fetched') :
           i < j => fetched'[i].idx < fetched'[j].idx
    ]_vars

\* a network error on the second attempt of a call (after one queue page):
\* one error counted, the counter still 1, the runner on to the next row
C10_Witness ==
  /\ pc = "loop"
  /\ Len(requests) = 2
  /\ requests[1].kind = "queue"
  /\ requests[2].kind = "neterr"
  /\ requests[2].wait = 0
  /\ consecutive_queues = 1
  /\ error_count = 1

(***************************************************************************)
(* C11  Identity rotation every N requests: the session is replaced        *)
(* exactly once per N = session_rotation_interval requests issued,         *)
(* whatever their outcome: two requests that each replace the session are  *)
(* at least N requests apart, and any N requests in a row hold one that    *)
(* replaces it.                                                            *)
(***************************************************************************)
C11_RotationEveryN ==
  /\ \A i, j \in 1..Len(requests) :
       (i < j /\ requests[i].rotated /\ requests[j].rotated)
         => j - i >= session_rotation_interval
  /\ \A i \in 1..Len(requests) :
       i + session_rotation_interval - 1 <= Len(requests)
         => \E j \in i..(i + session_rotation_interval - 1) : requests[j].rotated

\* ---------------------------------------------------------------------
\* process_batches: the orchestrator over segment (batch) files
\* ---------------------------------------------------------------------

\* process_batches: max_retries
segment_max_retries == 3
\* process_batches: every time.sleep is time.sleep(300)
cooldown == 300
\* largest number of batch files in the batch directory
MaxSegs == 2

\* the methods class BISScraper defines
BISScraper_methods ==
  {"__init__", "_create_session", "_rotate_session", "_calculate_delay",
   "_wait_between_requests", "load_progress", "save_progress",
   "estimate_completion_time", "process_bbls_from_csv", "save_batch",
   "is_queue_page", "fetch_page", "clean_text", "extract_address_info",
   "parse_property_profile", "get_property_profile", "save_data",
   "parse_bbl"}

\* the method process_batches calls on the scraper
called_method == "process_csv"

\* attribute lookup on a BISScraper raises AttributeError for a name the
\* class does not define
call_raises(method) == method \notin BISScraper_methods

\* batch files with their progress files: rows are the identifiers of the
\* BBL column in file order, progress the lines of
\* processed_bbls_batch_<n>.txt when that file exists; numbered tells if
\* the file name is batch_<int>.csv
SegmentFiles ==
  { [numbered |-> TRUE, rows |-> <<"0012340001", "0012340002">>,
     has_progress |-> FALSE, progress |-> <<>>],
    [numbered |-> TRUE, rows |-> <<"0012340001", "0012340002">>,
     has_progress |-> TRUE, progress |-> <<"0012340001">>],
    [numbered |-> TRUE, rows |-> <<"0012340001", "0012340002">>,
     has_progress |-> TRUE, progress |-> <<"0012340001", "0012340002">>],
    [numbered |-> TRUE, rows |-> <<"0012340001", "0012340001">>,
     has_progress |-> TRUE, progress |-> <<"0012340001">>],
    [numbered |-> TRUE, rows |-> <<"0012340001", "0012340002">>,
     has_progress |-> TRUE, progress |-> <<"0012340001", "0012340003">>],
    [numbered |-> FALSE, rows |-> <<"0012340001">>,
     has_progress |-> FALSE, progress |-> <<>>] }

\* set(f.read().splitlines())
progress_set(s) == {s.progress[i] : i \in 1..Len(s.progress)}

\* the test "already fully processed" of process_batches
already_processed(s) ==
  /\ s.has_progress
  /\ Cardinality(progress_set(s)) >= Len(s.rows)

\* the guard of the retry loop with an attempt limit too large by one
retry_allowed_OneMore(rc) == rc <= segment_max_retries

\* the guard of the retry loop with an attempt limit too large by two
retry_allowed_TwoMore(rc) == rc < segment_max_retries + 2

\* while retry_count < max_retries
retry_allowed(rc) == rc < segment_max_retries

\* where a KeyboardInterrupt leaves the loop if the handler continued
\* with the next batch file
on_interrupt_Continue == "next"

\* except KeyboardInterrupt: log and break
on_interrupt == "interrupted"

\* an entry of the orchestrator's history
Event(ev, secs) ==
  [seg |-> seg, ev |-> ev, gen |-> scraper_gen, at |-> o_pc, secs |-> secs]

\* no run of the runner in hand
RunnerIdle ==
  /\ input_csv = <<>>
  /\ progress_file = <<>>
  /\ output_exists = FALSE
  /\ output_csv = <<>>
  /\ batch_size = 1
  /\ processed_count = 0
  /\ error_count = 0
  /\ consecutive_queues = 0
  /\ pc = "idle"
  /\ processed_bbls = {}
  /\ index = 0
  /\ bbl_str = ""
  /\ current_batch = <<>>
  /\ attempt = 0
  /\ fetch_result = NoneVal
  /\ outcome = ""
  /\ run = 0
  /\ progress_at_start = <<>>
  /\ requests = <<>>
  /\ fetched = <<>>
  /\ response = NoneVal
  /\ flushes = <<>>
  /\ yielded = {}

\* the state in which process_batches is entered
InitOrch ==
  /\ RunnerIdle
  /\ segments \in SeqsUpTo(SegmentFiles, MaxSegs)
  /\ o_pc = "start"
  /\ seg = 0
  /\ retry_count = 0
  /\ scraper_gen = 0
  /\ o_events = <<>>
  /\ CodecIdle
  /\ ExtractIdle
  /\ TimingIdle

\* what a step of process_batches leaves alone
besideOrch == <<fileVars, scraperVars, runnerVars, histVars, codecVars,
                extractVars, timingVars>>

\* lines 76-87: list the batch files; return if there are none, else
\* construct the scraper
OrchStart ==
  /\ o_pc = "start"
  /\ IF segments = <<>>
     THEN /\ o_pc' = "returned"
          /\ UNCHANGED scraper_gen
     ELSE /\ o_pc' = "next"
          /\ scraper_gen' = 1
  /\ UNCHANGED <<segments, seg, retry_count, o_events>>
  /\ UNCHANGED besideOrch

\* for batch_file in batch_files
NextSegment ==
  /\ o_pc = "next"
  /\ IF seg < Len(segments)
     THEN /\ seg' = seg + 1
          /\ o_pc' = "check"
     ELSE /\ o_pc' = "finished"
          /\ UNCHANGED seg
  /\ UNCHANGED <<segments, retry_count, scraper_gen, o_events>>
  /\ UNCHANGED besideOrch

\* lines 92-118: the batch number (ValueError on a name without one goes
\* to except Exception: continue), the test for a fully processed batch,
\* retry_count = 0
CheckSegment ==
  /\ o_pc = "check"
  /\ IF ~segments[seg].numbered
     THEN /\ o_events' = Append(o_events, Event("error", 0))
          /\ o_pc' = "next"
          /\ UNCHANGED retry_count
     ELSE IF already_processed(segments[seg])
     THEN /\ o_events' = Append(o_events, Event("skip", 0))
          /\ o_pc' = "next"
          /\ UNCHANGED retry_count
     ELSE /\ retry_count' = 0
          /\ o_pc' = "loop"
          /\ UNCHANGED o_events
  /\ UNCHANGED <<segments, seg, scraper_gen>>
  /\ UNCHANGED besideOrch

\* lines 120-126 and 150-152: the head of the retry loop; on a retry a new
\* BISScraper and the sleep of line 126; past the loop the sleep of
\* line 152
RetryLoop ==
  /\ o_pc = "loop"
  /\ IF retry_allowed(retry_count)
     THEN IF retry_count > 0
          THEN /\ scraper_gen' = scraper_gen + 1
               /\ o_events' = o_events \o
                    << [Event("reinit", 0) EXCEPT !.gen = scraper_gen + 1],
                       [Event("wait_reinit", cooldown)
                          EXCEPT !.gen = scraper_gen + 1] >>
               /\ o_pc' = "sleep126"
          ELSE /\ o_pc' = "call"
               /\ UNCHANGED <<scraper_gen, o_events>>
     ELSE /\ o_events' = Append(o_events, Event("wait_between", cooldown))
          /\ o_pc' = "sleep152"
          /\ UNCHANGED scraper_gen
  /\ UNCHANGED <<segments, seg, retry_count>>
  /\ UNCHANGED besideOrch

\* the sleep of line 126 ends
Wake126 ==
  /\ o_pc = "sleep126"
  /\ o_pc' = "call"
  /\ UNCHANGED <<segments, seg, retry_count, scraper_gen, o_events>>
  /\ UNCHANGED besideOrch

\* lines 129-148: the call on the scraper; on an exception
\* retry_count += 1 and the sleep of line 145 while attempts remain; on a
\* normal return break, to the sleep of line 152
CallScraper ==
  /\ o_pc = "call"
  /\ IF call_raises(called_method)
     THEN /\ retry_count' = retry_count + 1
          /\ IF retry_allowed(retry_count + 1)
             THEN /\ o_events' = o_events \o
                       << Event("attempt", 0), Event("raise", 0),
                          Event("wait_failed", cooldown) >>
                  /\ o_pc' = "sleep145"
             ELSE /\ o_events' = o_events \o
                       << Event("attempt", 0), Event("raise", 0),
                          Event("abandon", 0) >>
                  /\ o_pc' = "loop"
     ELSE /\ o_events' = o_events \o
               << Event("attempt", 0), Event("runner", 0),
                  Event("return", 0),
                  Event("wait_between", cooldown) >>
          /\ o_pc' = "sleep152"
          /\ UNCHANGED retry_count
  /\ UNCHANGED <<segments, seg, scraper_gen>>
  /\ UNCHANGED besideOrch

\* the sleep of line 145 ends
Wake145 ==
  /\ o_pc = "sleep145"
  /\ o_pc' = "loop"
  /\ UNCHANGED <<segments, seg, retry_count, scraper_gen, o_events>>
  /\ UNCHANGED besideOrch

\* the sleep of line 152 ends
Wake152 ==
  /\ o_pc = "sleep152"
  /\ o_pc' = "next"
  /\ UNCHANGED <<segments, seg, retry_count, scraper_gen, o_events>>
  /\ UNCHANGED besideOrch

\* the positions inside the try of lines 91-152
InSegment ==
  o_pc \in {"check", "loop", "sleep126", "call", "sleep145", "sleep152"}

\* lines 154-156: a KeyboardInterrupt raised anywhere inside the try
Interrupt ==
  /\ InSegment
  /\ o_events' = Append(o_events, Event("interrupt", 0))
  /\ o_pc' = on_interrupt
  /\ UNCHANGED <<segments, seg, retry_count, scraper_gen>>
  /\ UNCHANGED besideOrch

NextOrch ==
  \/ OrchStart
  \/ NextSegment
  \/ CheckSegment
  \/ RetryLoop
  \/ Wake126
  \/ CallScraper
  \/ Wake145
  \/ Wake152
  \/ Interrupt

SpecOrch == InitOrch /\ [][NextOrch]_vars

\* ---------------------------------------------------------------------
\* Properties of process_batches
\* ---------------------------------------------------------------------

\* positions in the history of the events of kind ev on segment k
EventsAt(k, ev) ==
  {i \in 1..Len(o_events) : o_events[i].seg = k /\ o_events[i].ev = ev}

WaitKinds == {"wait_reinit", "wait_failed", "wait_between"}

\* every identifier of the segment file, repeated rows included, is a line
\* of the segment's progress file
SegmentComplete(s) ==
  /\ s.has_progress
  /\ \A i \in 1..Len(s.rows) : s.rows[i] \in progress_set(s)

\* the handling of segment k is over and no interrupt ended it
Handled(k) ==
  /\ k <= seg
  /\ (k = seg => o_pc \in {"next", "finished"})

\* C12: a segment whose identifiers, duplicates included, are all in its
\* progress file gets no attempt, no run of the runner (hence no request
\* to the remote service) and no cool-down wait.
C12_CompleteSegmentSkippedForFree ==
  \A i \in 1..Len(o_events) :
    SegmentComplete(segments[o_events[i].seg])
      => o_events[i].ev \notin ({"attempt", "runner"} \cup WaitKinds)

\* C13: every segment with a batch number that was not skipped as already
\* processed and whose handling ended without an interrupt had the
\* runner's batch operation executed on it by some attempt.
C13_OrchestratorReachesRunner ==
  \A k \in 1..Len(segments) :
    (/\ Handled(k)
     /\ segments[k].numbered
     /\ EventsAt(k, "skip") = {})
      => EventsAt(k, "runner") # {}

\* C14: on each segment there are at most segment_max_retries attempts, an
\* attempt is followed by another one only if it raised, no attempt
\* follows a normal return, and once the orchestration has finished every
\* segment was taken up, the ones after an abandoned segment included.
C14_BoundedSegmentRetry ==
  /\ \A k \in 1..Len(segments) :
       /\ Cardinality(EventsAt(k, "attempt")) <= segment_max_retries
       /\ \A i, j \in EventsAt(k, "attempt") :
            i < j => /\ o_events[i + 1].ev = "raise"
                     /\ \A r \in EventsAt(k, "return") : j < r
       /\ EventsAt(k, "abandon") # {}
            => Cardinality(EventsAt(k, "raise")) = segment_max_retries
  /\ o_pc = "finished"
       => /\ seg = Len(segments)
          /\ \A k \in 1..Len(segments) :
               \E i \in 1..Len(o_events) : o_events[i].seg = k

\* the first of two segments was abandoned after its last failed attempt
\* and the second was attempted before the orchestration finished
C14_Witness ==
  /\ o_pc = "finished"
  /\ Len(segments) = 2
  /\ EventsAt(1, "abandon") # {}
  /\ Cardinality(EventsAt(1, "attempt")) = segment_max_retries
  /\ EventsAt(2, "attempt") # {}

\* C15: between two successive attempts on one segment there are exactly
\* one new scraper and exactly one wait, of cooldown seconds, and the
\* later attempt runs on a scraper no failed attempt has used.
C15_RetryCooldownOnce ==
  \A k \in 1..Len(segments) :
    \A i, j \in EventsAt(k, "attempt") :
      (i < j /\ ~ \E m \in EventsAt(k, "attempt") : i < m /\ m < j)
        => /\ Cardinality({m \in i..j : o_events[m].ev \in WaitKinds}) = 1
           /\ \A m \in i..j :
                o_events[m].ev \in WaitKinds => o_events[m].secs = cooldown
           /\ Cardinality({m \in i..j : o_events[m].ev = "reinit"}) = 1
           /\ \A m \in EventsAt(k, "raise") :
                m < j => o_events[m].gen # o_events[j].gen

\* C16: the wait between segments follows a segment exactly when an
\* attempt on it returned normally; an abandoned segment and a skipped
\* one are followed by none.
C16_CooldownIffCompleted ==
  \A k \in 1..Len(segments) :
    /\ EventsAt(k, "wait_between") # {} <=> EventsAt(k, "return") # {}
    /\ EventsAt(k, "abandon") # {} => EventsAt(k, "wait_between") = {}
    /\ EventsAt(k, "skip") # {} => EventsAt(k, "wait_between") = {}

\* C17: a KeyboardInterrupt delivered while a segment is handled is the
\* last thing the orchestration records: no attempt, wait or segment
\* follows it, and the orchestration has left the loop by the handler of
\* line 154.
C17_InterruptStops ==
  \A i \in 1..Len(o_events) :
    o_events[i].ev = "interrupt"
      => /\ i = Len(o_events)
         /\ seg = o_events[i].seg
         /\ o_pc = "interrupted"

\* interrupted in the sleep after a failed attempt, a further attempt on
\* the segment and a further segment outstanding
C17_Witness ==
  /\ o_pc = "interrupted"
  /\ o_events[Len(o_events)].at = "sleep145"
  /\ retry_allowed(retry_count)
  /\ seg < Len(segments)

\* ---------------------------------------------------------------------
\* The identifier codec: parse_bbl, get_property_profile's attachment of
\* the three segments, save_batch's BBL column
\* ---------------------------------------------------------------------

\* digits the identifiers are made of
CodecDigits == {"0", "7"}

\* the strings of n digits
RECURSIVE DigitStrings(_)
DigitStrings(n) ==
  IF n = 0 THEN {""}
  ELSE {d \o s : d \in CodecDigits, s \in DigitStrings(n - 1)}

\* what the runner hands to parse_bbl: str(bbl).zfill(10) has 10
\* characters or more
CodecInputs == DigitStrings(BblWidth) \cup DigitStrings(BblWidth + 1)

InitCodec ==
  /\ RunnerIdle
  /\ OrchIdle
  /\ ExtractIdle
  /\ TimingIdle
  /\ codec_in \in CodecInputs
  /\ codec_out = [stage |-> "in"]

besideCodec == <<fileVars, scraperVars, runnerVars, histVars, orchVars,
                 extractVars, timingVars>>

\* parse_bbl(bbl_str)
Decode ==
  /\ codec_out.stage = "in"
  /\ codec_out' = IF parse_bbl_raises(codec_in)
                  THEN [stage |-> "raised"]
                  ELSE [stage |-> "decoded", parts |-> parse_bbl(codec_in)]
  /\ UNCHANGED codec_in
  /\ UNCHANGED besideCodec

\* get_property_profile on the page fetched for the decoded segments
Attach(detail_html) ==
  /\ codec_out.stage = "decoded"
  /\ LET p == get_property_profile(detail_html, codec_out.parts)
     IN codec_out' = IF p = <<>>
                     THEN [stage |-> "none"]
                     ELSE [stage |-> "attached", record |-> p[1]]
  /\ UNCHANGED codec_in
  /\ UNCHANGED besideCodec

\* save_batch: the BBL column of the record
Encode ==
  /\ codec_out.stage = "attached"
  /\ codec_out' = [stage |-> "encoded", bbl |-> RowBBL(codec_out.record)]
  /\ UNCHANGED codec_in
  /\ UNCHANGED besideCodec

NextCodec ==
  \/ Decode
  \/ \E detail_html \in Docs : Attach(detail_html)
  \/ Encode

SpecCodec == InitCodec /\ [][NextCodec]_vars

\* C18: a string of 10 digits decoded by parse_bbl, carried in a record by
\* get_property_profile and encoded by save_batch comes back unchanged.
C18_IdentifierRoundTrip ==
  codec_out.stage = "encoded" => codec_out.bbl = codec_in

\* an identifier whose block and lot begin with zeros was encoded
C18_Witness ==
  /\ codec_in = "7007770007"
  /\ codec_out.stage = "encoded"
  /\ codec_out.bbl = "7007770007"

\* ---------------------------------------------------------------------
\* extract_address_info: string functions
\* ---------------------------------------------------------------------

Ch(t, i) == SubSeq(t, i, i)
Rest(t) == SubSeq(t, 2, Len(t))
DigitChars == {"0", "1", "2", "3", "4", "5", "6", "7", "8", "9"}

\* sub in t, for a non-empty sub
Contains(t, sub) ==
  \E i \in 1..(Len(t) - Len(sub) + 1) : SubSeq(t, i, i + Len(sub) - 1) = sub

\* the positions at which sub stands in t
Occurrences(t, sub) ==
  {i \in 1..(Len(t) - Len(sub) + 1) : SubSeq(t, i, i + Len(sub) - 1) = sub}

Least(S) == CHOOSE x \in S : \A y \in S : x <= y

StartsWith(t, sub) == Len(t) >= Len(sub) /\ SubSeq(t, 1, Len(sub)) = sub
EndsWith(t, sub) ==
  Len(t) >= Len(sub) /\ SubSeq(t, Len(t) - Len(sub) + 1, Len(t)) = sub

\* re.sub(r'\s+', ' ', text) on a text whose whitespace is blanks
RECURSIVE CollapseSpaces(_)
CollapseSpaces(t) ==
  IF t = "" THEN ""
  ELSE IF Len(t) >= 2 /\ Ch(t, 1) = " " /\ Ch(t, 2) = " "
  THEN CollapseSpaces(Rest(t))
  ELSE Ch(t, 1) \o CollapseSpaces(Rest(t))

RECURSIVE LStrip(_)
LStrip(t) == IF t # "" /\ Ch(t, 1) = " " THEN LStrip(Rest(t)) ELSE t

RECURSIVE RStrip(_)
RStrip(t) ==
  IF t # "" /\ Ch(t, Len(t)) = " "
  THEN RStrip(SubSeq(t, 1, Len(t) - 1)) ELSE t

\* clean_text: collapse whitespace, strip
clean_text(text) == LStrip(RStrip(CollapseSpaces(text)))

\* the first position from i on that holds no blank
RECURSIVE SkipSpaces(_, _)
SkipSpaces(t, i) ==
  IF i <= Len(t) /\ Ch(t, i) = " " THEN SkipSpaces(t, i + 1) ELSE i

\* the end of the run of digits that starts at i (i - 1 if there is none)
RECURSIVE DigitRunEnd(_, _)
DigitRunEnd(t, i) ==
  IF i <= Len(t) /\ Ch(t, i) \in DigitChars
  THEN DigitRunEnd(t, i + 1) ELSE i - 1

\* re.search(r'BIN#\s*(\d+)', text): group 1 of the leftmost match, as a
\* sequence of at most one string
bin_match(text) ==
  LET hits == {i \in Occurrences(text, "BIN#") :
                 LET d == SkipSpaces(text, i + 4)
                 IN DigitRunEnd(text, d) >= d}
  IN IF hits = {} THEN <<>>
     ELSE LET d == SkipSpaces(text, Least(hits) + 4)
          IN <<SubSeq(text, d, DigitRunEnd(text, d))>>

BoroughNames == {"MANHATTAN", "BROOKLYN", "QUEENS", "BRONX", "STATEN ISLAND"}

\* any(borough in text for borough in [...])
names_borough(text) == \E b \in BoroughNames : Contains(text, b)

\* re.search(r'(MANHATTAN|BROOKLYN|QUEENS|BRONX|STATEN ISLAND)', text)
borough_match(text) ==
  LET hits == UNION {Occurrences(text, b) : b \in BoroughNames}
  IN IF hits = {} THEN <<>>
     ELSE <<CHOOSE b \in BoroughNames : Least(hits) \in Occurrences(text, b)>>

\* re.search(r'(\d{5})', text)
zip_match(text) ==
  LET hits == {i \in 1..(Len(text) - 4) :
                 \A j \in i..(i + 4) : Ch(text, j) \in DigitChars}
  IN IF hits = {} THEN <<>>
     ELSE <<SubSeq(text, Least(hits), Least(hits) + 4)>>

\* re.sub(r'\s*-\s*', '-', building_numbers)
RECURSIVE tighten_hyphens(_)
tighten_hyphens(t) ==
  IF t = "" THEN ""
  ELSE LET d == SkipSpaces(t, 1)
       IN IF d <= Len(t) /\ Ch(t, d) = "-"
          THEN "-" \o tighten_hyphens(
                        SubSeq(t, SkipSpaces(t, d + 1), Len(t)))
          ELSE IF d > 1
          THEN SubSeq(t, 1, d - 1) \o tighten_hyphens(SubSeq(t, d, Len(t)))
          ELSE Ch(t, 1) \o tighten_hyphens(Rest(t))

\* ', '.join(list)
RECURSIVE join(_)
join(list) ==
  IF list = <<>> THEN ""
  ELSE IF Len(list) = 1 THEN list[1]
  ELSE list[1] \o ", " \o join(Tail(list))

\* ---------------------------------------------------------------------
\* extract_address_info on one document
\* ---------------------------------------------------------------------

\* largest number of td.maininfo cells and tr[valign=top] rows, taken
\* together, in a document
MaxParts == 3

\* texts of td.maininfo cells
MainInfoCells ==
  {"BIN# 1001", " BIN#  2002 ", "MANHATTAN 10001", "BROOKLYN, NY",
   "100 MAIN STREET", "200  SIDE AVENUE", "  "}

\* tr[valign=top] rows: the texts of their td.content cells, and whether
\* one of these cells has colspan="4"
ContentRows ==
  { [cells |-> <<"MAIN STREET", "10 - 12">>, colspan4 |-> FALSE],
    [cells |-> <<"MAIN  STREET ", "10-12">>, colspan4 |-> FALSE],
    [cells |-> <<"SIDE AVENUE", "5">>, colspan4 |-> FALSE],
    [cells |-> <<"View Certificates of Occupancy", "1">>,
     colspan4 |-> FALSE],
    [cells |-> <<"Cross Street(s):", "A STREET, B STREET">>,
     colspan4 |-> TRUE],
    [cells |-> <<"BROAD STREET">>, colspan4 |-> FALSE],
    [cells |-> <<"BROAD STREET", " ">>, colspan4 |-> FALSE] }

\* data = {}
EmptyDict == [k \in {} |-> ""]

\* what the body of `for cell in maininfo_cells` assigns for a cleaned
\* text
cell_fields(text) ==
  IF Contains(text, "BIN#")
  THEN IF bin_match(text) # <<>>
       THEN "BIN" :> bin_match(text)[1] ELSE EmptyDict
  ELSE IF names_borough(text)
  THEN (IF borough_match(text) # <<>>
        THEN "Borough" :> borough_match(text)[1] ELSE EmptyDict)
       @@ (IF zip_match(text) # <<>>
           THEN "ZIP Code" :> zip_match(text)[1] ELSE EmptyDict)
  ELSE IF text # "" /\ ~Contains(text, "BIN#") /\ ~names_borough(text)
  THEN "Primary Address" :> text
  ELSE EmptyDict

\* data[key] = value for every pair of new: the assignment replaces
assign(d, new) == new @@ d

ExcludedFragments ==
  {"View", "Browse", "HPD", "Number", "This property",
   "OR Enter Action Type", "OR Select from List"}

\* the tests a row passes to contribute an address
row_qualifies(row) ==
  /\ Len(row.cells) >= 2
  /\ ~row.colspan4
  /\ LET street_name == clean_text(row.cells[1])
         building_numbers == clean_text(row.cells[2])
     IN /\ street_name # ""
        /\ building_numbers # ""
        /\ \A x \in ExcludedFragments : ~Contains(street_name, x)
        /\ ~EndsWith(street_name, ":")
        /\ ~StartsWith(street_name, "Select")

\* f"{building_numbers} {street_name}"
full_address(row) ==
  tighten_hyphens(clean_text(row.cells[2])) \o " "
    \o clean_text(row.cells[1])

\* the append without the membership test
append_unique_Always(list, a) == Append(list, a)

\* if full_address not in secondary_addresses: append
append_unique(list, a) ==
  IF a \in {list[i] : i \in 1..Len(list)} THEN list ELSE Append(list, a)

\* the documents: up to MaxParts cells and rows
Documents ==
  {d \in SeqsUpTo(MainInfoCells, MaxParts) \X SeqsUpTo(ContentRows, MaxParts) :
     Len(d[1]) + Len(d[2]) <= MaxParts}

InitExtract ==
  /\ RunnerIdle
  /\ OrchIdle
  /\ CodecIdle
  /\ TimingIdle
  /\ \E d \in Documents :
       /\ maininfo_cells = d[1]
       /\ content_rows = d[2]
  /\ x_pc = "cells"
  /\ x_i = 0
  /\ data = EmptyDict
  /\ secondary_addresses = <<>>

besideExtract == <<fileVars, scraperVars, runnerVars, histVars, orchVars,
                   codecVars, timingVars>>

\* one iteration of `for cell in maininfo_cells`
ExtractCell ==
  /\ x_pc = "cells"
  /\ x_i < Len(maininfo_cells)
  /\ x_i' = x_i + 1
  /\ data' = assign(data, cell_fields(clean_text(maininfo_cells[x_i + 1])))
  /\ UNCHANGED <<maininfo_cells, content_rows, x_pc, secondary_addresses>>
  /\ UNCHANGED besideExtract

\* secondary_addresses = []; content_rows = soup.find_all(...)
StartRows ==
  /\ x_pc = "cells"
  /\ x_i = Len(maininfo_cells)
  /\ x_pc' = "rows"
  /\ x_i' = 0
  /\ secondary_addresses' = <<>>
  /\ UNCHANGED <<maininfo_cells, content_rows, data>>
  /\ UNCHANGED besideExtract

\* one iteration of `for row in content_rows`
ExtractRow ==
  /\ x_pc = "rows"
  /\ x_i < Len(content_rows)
  /\ x_i' = x_i + 1
  /\ secondary_addresses' =
       IF row_qualifies(content_rows[x_i + 1])
       THEN append_unique(secondary_addresses,
                          full_address(content_rows[x_i + 1]))
       ELSE secondary_addresses
  /\ UNCHANGED <<maininfo_cells, content_rows, x_pc, data>>
  /\ UNCHANGED besideExtract

\* if secondary_addresses: data['Secondary Addresses'] = ...; return data
ReturnData ==
  /\ x_pc = "rows"
  /\ x_i = Len(content_rows)
  /\ x_pc' = "done"
  /\ data' = IF secondary_addresses # <<>>
             THEN assign(data,
                         "Secondary Addresses" :> join(secondary_addresses))
             ELSE data
  /\ UNCHANGED <<maininfo_cells, content_rows, x_i, secondary_addresses>>
  /\ UNCHANGED besideExtract

NextExtract ==
  \/ ExtractCell
  \/ StartRows
  \/ ExtractRow
  \/ ReturnData

SpecExtract == InitExtract /\ [][NextExtract]_vars

\* ---------------------------------------------------------------------
\* Properties of extract_address_info
\* ---------------------------------------------------------------------

MainInfoKeys == {"BIN", "Borough", "ZIP Code", "Primary Address"}

\* the cells, in document order, that yield a value for key
QualifyingCells(key) ==
  {i \in 1..Len(maininfo_cells) :
     key \in DOMAIN cell_fields(clean_text(maininfo_cells[i]))}

\* C19: in the returned dict each of BIN, Borough, ZIP Code and Primary
\* Address holds the value of the first cell in document order that
\* yields one for it.
C19_FirstWins ==
  x_pc = "done"
    => \A key \in MainInfoKeys :
         QualifyingCells(key) # {}
           => /\ key \in DOMAIN data
              /\ data[key] =
                   cell_fields(clean_text(
                     maininfo_cells[Least(QualifyingCells(key))]))[key]

\* the rows that contribute an address
QualifyingRows ==
  {i \in 1..Len(content_rows) : row_qualifies(content_rows[i])}

\* the first row that composes to address a
FirstRowOf(a) ==
  Least({i \in QualifyingRows : full_address(content_rows[i]) = a})

\* C20: the returned Secondary Addresses is the ', '-joined list of the
\* distinct composed addresses of the qualifying rows, each once, in the
\* order of their first rows; the key is absent when no row qualifies.
C20_SecondaryAddressesDistinct ==
  x_pc = "done"
    => /\ {secondary_addresses[j] : j \in 1..Len(secondary_addresses)}
            = {full_address(content_rows[i]) : i \in QualifyingRows}
       /\ \A j, k \in 1..Len(secondary_addresses) :
            j < k => /\ secondary_addresses[j] # secondary_addresses[k]
                     /\ FirstRowOf(secondary_addresses[j])
                          < FirstRowOf(secondary_addresses[k])
       /\ "Secondary Addresses" \in DOMAIN data <=> QualifyingRows # {}
       /\ QualifyingRows # {}
            => data["Secondary Addresses"] = join(secondary_addresses)

\* three qualifying rows, the first and the third composing to the same
\* address
C20_Witness ==
  /\ x_pc = "done"
  /\ Len(content_rows) = 3
  /\ QualifyingRows = {1, 2, 3}
  /\ full_address(content_rows[1]) = full_address(content_rows[3])
  /\ content_rows[1] # content_rows[3]
  /\ data["Secondary Addresses"] = "10-12 MAIN STREET, 5 SIDE AVENUE"

\* ---------------------------------------------------------------------
\* Further properties of the runner and of process_batches
\* ---------------------------------------------------------------------

\* the lines this run appended to the progress file
ProgressOfRun ==
  SubSeq(progress_file, Len(progress_at_start) + 1, Len(progress_file))

\* C21: a failed flush loses no record: once a run has gone through its
\* source, every record it buffered (one per line it appended to the
\* progress file) is a row of the output file.
C21_NoRecordLostByFailedFlush ==
  RunComplete
    => \A j \in 1..Len(ProgressOfRun) : ProgressOfRun[j] \in OutputRows

\* C22: a segment is skipped only if every identifier of its file is a
\* line of its progress file.
C22_SkippedOnlyWhenComplete ==
  \A i \in 1..Len(o_events) :
    o_events[i].ev = "skip" => SegmentComplete(segments[o_events[i].seg])

\* C25: within one run no identifier is appended to the progress file
\* twice (so none is fetched with success twice).
C25_AtMostOneFetchPerRun ==
  \A i, j \in 1..Len(ProgressOfRun) :
    i < j => ProgressOfRun[i] # ProgressOfRun[j]

\* ---------------------------------------------------------------------
\* The request spacing of one BISScraper: _calculate_delay,
\* _wait_between_requests and the loop of fetch_page.  Time is counted in
\* tenths of a second.
\* ---------------------------------------------------------------------

TicksPerSecond == 10
\* self.min_delay = 1.0
min_delay == 10
\* self.max_delay = 3.0
max_delay == 30

\* values of random.uniform(0, 0.5)
Jitters == {0, 2, 5}

\* time that passes between the return of one fetch_page and the call of
\* the next
Elapses == {0, 4, 10}

Min(a, b) == IF a <= b THEN a ELSE b

\* min_delay * (1 + consecutive_queues * 0.5) when consecutive_queues > 0
base_delay(cq) == IF cq > 0 THEN (min_delay * (2 + cq)) \div 2 ELSE min_delay

\* _calculate_delay
calculate_delay(cq, jitter) == Min(base_delay(cq) + jitter, max_delay)

\* the wait left out
needs_wait_Never(is_stamped, since) == FALSE

\* _wait_between_requests: if self.last_request_time and
\* elapsed < self.min_delay
needs_wait(is_stamped, since) == is_stamped /\ since < min_delay

\* a new BISScraper, no run of the runner, no request made yet
InitTiming ==
  /\ RunnerIdle
  /\ OrchIdle
  /\ CodecIdle
  /\ ExtractIdle
  /\ t_pc = "idle"
  /\ stamped = FALSE
  /\ elapsed = 0
  /\ spacing = [first |-> TRUE, waited |-> FALSE, delay |-> 0, jitter |-> 0,
                cq |-> 0, gap |-> 0]

\* what the transport leaves alone: all but consecutive_queues and attempt
besideTiming ==
  <<fileVars, batch_size, processed_count, error_count, pc, processed_bbls,
    index, bbl_str, current_batch, fetch_result, outcome, histVars, orchVars,
    codecVars, extractVars>>

\* fetch_page is called, e after the previous call returned
CallFetchPage(e) ==
  /\ t_pc = "idle"
  /\ t_pc' = "wait"
  /\ attempt' = 0
  /\ elapsed' = elapsed + e
  /\ UNCHANGED <<stamped, spacing, consecutive_queues>>
  /\ UNCHANGED besideTiming

\* _wait_between_requests, with the jitter drawn if it waits
WaitBetweenRequests(jitter) ==
  /\ t_pc = "wait"
  /\ LET waits == needs_wait(stamped, elapsed)
         delay == IF waits THEN calculate_delay(consecutive_queues, jitter)
                  ELSE 0
     IN /\ ~waits => jitter = 0
        /\ spacing' = [first |-> ~stamped, waited |-> waits, delay |-> delay,
                       jitter |-> jitter, cq |-> consecutive_queues,
                       gap |-> elapsed + delay]
  /\ stamped' = TRUE
  /\ elapsed' = 0
  /\ t_pc' = "request"
  /\ UNCHANGED <<attempt, consecutive_queues>>
  /\ UNCHANGED besideTiming

\* the request of the iteration and what fetch_page does with the
\* response, the sleep on a queue page included
Request(resp) ==
  /\ t_pc = "request"
  /\ is_queue_page(resp) => consecutive_queues < MaxQueue
  /\ LET cq == counter_after(resp, consecutive_queues)
     IN /\ consecutive_queues' = cq
        /\ elapsed' = elapsed + TicksPerSecond * wait_after(resp, cq)
  /\ attempt' = attempt + 1
  /\ t_pc' = IF loop_continues(resp, attempt) THEN "wait" ELSE "idle"
  /\ UNCHANGED <<stamped, spacing>>
  /\ UNCHANGED besideTiming

NextTiming ==
  \/ \E e \in Elapses : CallFetchPage(e)
  \/ \E jitter \in Jitters : WaitBetweenRequests(jitter)
  \/ \E resp \in Responses : Request(resp)

SpecTiming == InitTiming /\ [][NextTiming]_vars

\* C23 as stated: two consecutive requests are at least min_delay apart,
\* and an inserted wait lasts min_delay scaled by
\* (1 + 0.5 * consecutive_queues) plus the jitter.
C23_SpacingUncapped ==
  /\ ~spacing.first => spacing.gap >= min_delay
  /\ spacing.waited
       => spacing.delay = base_delay(spacing.cq) + spacing.jitter

\* C23 with the cap: two consecutive requests are at least min_delay
\* apart, and an inserted wait lasts the smaller of max_delay and
\* min_delay scaled by (1 + 0.5 * consecutive_queues) plus the jitter.
C23_SpacingCapped ==
  /\ ~spacing.first => spacing.gap >= min_delay
  /\ spacing.waited
       => /\ spacing.delay
               = Min(base_delay(spacing.cq) + spacing.jitter, max_delay)
          /\ spacing.delay >= min_delay
          /\ spacing.delay <= max_delay

\* after four queue pages and a network error the next call follows at
\* once: the wait inserted is cut to max_delay
C23_Witness ==
  /\ t_pc = "request"
  /\ spacing.waited
  /\ spacing.cq = 4
  /\ spacing.jitter = 5
  /\ spacing.delay = max_delay
  /\ spacing.gap = max_delay

\* ---------------------------------------------------------------------
\* The runner with file writes that fail (OSError from write or open)
\* ---------------------------------------------------------------------

\* sources of pairwise distinct identifiers
FaultSources == {<<"12340001">>, <<"12340001", "0012340002">>}

InitFaults ==
  /\ Init
  /\ input_csv \in FaultSources

\* lines 167-181 and 199-202 when txt_file.write or save_progress raises:
\* the record is in the buffer and processed_count is incremented, the
\* handler of line 199 then counts an error and the loop continues
HandleResultWriteFails ==
  /\ pc = "fetched"
  /\ UNCHANGED besideRunner
  /\ PropertyTruthy(get_property_profile(fetch_result, parse_bbl(bbl_str)))
  /\ current_batch' =
       Append(current_batch,
              get_property_profile(fetch_result, parse_bbl(bbl_str))[1])
  /\ processed_count' = processed_count + 1
  /\ error_count' = error_count + 1
  /\ yielded' = yielded \cup {bbl_str}
  /\ pc' = "loop"
  /\ UNCHANGED <<processed_bbls, index, bbl_str, attempt, fetch_result, outcome>>
  /\ UNCHANGED <<batch_size, consecutive_queues>>
  /\ UNCHANGED fileVars
  /\ UNCHANGED <<run, progress_at_start, requests, fetched, response, flushes>>

\* save_batch when to_csv raises: the exception is logged (line 238),
\* nothing is written
SaveBatchWriteFails(final) ==
  /\ flushes' = Append(flushes,
        [n |-> Len(current_batch), ok |-> FALSE, header |-> FALSE,
         final |-> final])
  /\ UNCHANGED <<output_csv, output_exists>>

\* lines 191-194 with a failing write
FlushCheckWriteFails ==
  /\ pc = "flushcheck"
  /\ UNCHANGED besideRunner
  /\ Len(current_batch) >= batch_size
  /\ SaveBatchWriteFails(FALSE)
  /\ current_batch' = <<>>
  /\ pc' = "loop"
  /\ UNCHANGED <<processed_bbls, index, bbl_str, attempt, fetch_result, outcome>>
  /\ UNCHANGED <<input_csv, progress_file>>
  /\ UNCHANGED <<run, progress_at_start, requests, fetched, response, yielded>>
  /\ UNCHANGED scraperVars

\* lines 204-206 with a failing write
FinalFlushWriteFails ==
  /\ pc = "loop"
  /\ UNCHANGED besideRunner
  /\ index = Len(input_csv)
  /\ current_batch # <<>>
  /\ SaveBatchWriteFails(TRUE)
  /\ pc' = "stats"
  /\ UNCHANGED <<processed_bbls, index, bbl_str, current_batch, attempt,
                 fetch_result, outcome>>
  /\ UNCHANGED <<input_csv, progress_file>>
  /\ UNCHANGED <<run, progress_at_start, requests, fetched, response, yielded>>
  /\ UNCHANGED scraperVars

NextFaults ==
  \/ StartRun
  \/ NextBbl
  \/ \E resp \in Responses : FetchAttempt(resp)
  \/ HandleResult
  \/ HandleResultWriteFails
  \/ FlushCheck
  \/ FlushCheckWriteFails
  \/ FinalFlush
  \/ FinalFlushWriteFails
  \/ FinalStats
  \/ Crash
  \/ Restart

SpecFaults == InitFaults /\ [][NextFaults]_vars

\* the rows of the source taken up so far that were not skipped
HandledRows ==
  {k \in 1..index : ~IsLineOf(Padded(k), progress_at_start)}

\* C24: between two identifiers processed_count is the number of lines
\* this run appended to the progress file, and processed_count plus
\* error_count is the number of identifiers handled and not skipped.
C24_CountersAllOrNothing ==
  pc = "loop"
    => /\ processed_count = Len(ProgressOfRun)
       /\ processed_count + error_count = Cardinality(HandledRows)

\* C26: over a source of pairwise distinct identifiers the output file
\* never holds two rows with the same identifier.
C26_NoDuplicateRows ==
  (\A i, j \in 1..Len(input_csv) : i < j => Padded(i) # Padded(j))
    => \A i, j \in 1..Len(output_csv) :
         i < j => output_csv[i] # output_csv[j]

\* ---------------------------------------------------------------------
\* Termination of process_batches
\* ---------------------------------------------------------------------

\* a step of process_batches itself: the process runs on and every
\* time.sleep returns; the interrupt is the environment's
OrchStep ==
  \/ OrchStart
  \/ NextSegment
  \/ CheckSegment
  \/ RetryLoop
  \/ Wake126
  \/ CallScraper
  \/ Wake145
  \/ Wake152

LiveOrch == SpecOrch /\ WF_vars(OrchStep)

\* process_batches has returned
OrchEnded == o_pc \in {"returned", "finished", "interrupted"}

\* the most that is recorded for one segment: per attempt the attempt and
\* its exception, between attempts two waits and a new scraper, at the end
\* the abandonment, the wait of line 152 and possibly an interrupt
EventsPerSegment == 5 * segment_max_retries

\* C27: process_batches returns, and on the way it makes no more than a
\* fixed number of attempts and waits per segment.
C27_OrchestrationTerminates ==
  /\ <>OrchEnded
  /\ [](Len(o_events) <= EventsPerSegment * Len(segments))

\* the loop ended after two segments that both used up their attempts
C27_Witness ==
  /\ o_pc = "finished"
  /\ Len(segments) = 2
  /\ \A k \in 1..2 :
       /\ Cardinality(EventsAt(k, "attempt")) = segment_max_retries
       /\ Cardinality(EventsAt(k, "wait_failed")
                        \cup EventsAt(k, "wait_reinit")
                        \cup EventsAt(k, "wait_between"))
            = 2 * segment_max_retries - 1

====
